---- MODULE Spec2Model ----
(***************************************************************************)
(* A model of the `Builder` derive macro (builder/src/builder.rs) and of   *)
(* the builder type it generates.                                          *)
(*                                                                         *)
(* Generation time: a DeriveInput is turned into a BuilderContext by       *)
(* BuilderContext::new and into a token stream by                          *)
(* BuilderContext::generate.  Run time: the generated builder is created   *)
(* by the factory, its methods are called and finish() materialises the    *)
(* record or reports the first required field that was never set.          *)
(***************************************************************************)
EXTENDS Naturals, Sequences, FiniteSets

VARIABLES
    input,      \* the DeriveInput handed to the macro
    pc,         \* "input", "ctx", "generated", "building", "finished", "panicked"
    ctx,        \* the BuilderContext built by new
    panic_msg,  \* the payload of the panic that aborted generation ("" if none)
    output,     \* the generated items (the TokenStream, kept structured)
    builder,    \* run time: the builder's storage, one Option per field
    hist,       \* run time: per field, the arguments its method was called with
    result      \* run time: what finish() returned

vars == <<input, pc, ctx, panic_msg, output, builder, hist, result>>

----------------------------------------------------------------------------
(* Bounds of the model.                                                    *)

\* fields of a record in the generation-only specification
GenMaxFields == 1
\* fields of a record in the specification that also runs the builder
MaxFields == 2
\* method calls made on one builder before finish()
MaxCalls == 3

----------------------------------------------------------------------------
(* syn types.  A Type is a path of segments or some other kind of type;    *)
(* a segment carries PathArguments; an angle-bracketed argument list holds *)
(* GenericArguments.                                                       *)

NoTy == [kind |-> "Never", segs |-> <<>>]

Seg(ident, arguments) == [ident |-> ident, arguments |-> arguments]

NoArgs == [kind |-> "None", args |-> <<>>]

Angle(args) == [kind |-> "AngleBracketed", args |-> args]

Paren == [kind |-> "Parenthesized", args |-> <<>>]

GType(t) == [kind |-> "Type", ty |-> t]

GLifetime == [kind |-> "Lifetime", ty |-> NoTy]

TPath(segs) == [kind |-> "Path", segs |-> segs]

\* a type that is not a path, such as &str
TReference == [kind |-> "Reference", segs |-> <<>>]

Simple(ident) == TPath(<<Seg(ident, NoArgs)>>)

Generic(ident, args) == TPath(<<Seg(ident, Angle(args))>>)

StringTy == Simple("String")

OptionString == Generic("Option", <<GType(StringTy)>>)

VecString == Generic("Vec", <<GType(StringTy)>>)

OptionVecString == Generic("Option", <<GType(VecString)>>)

\* std::option::Option<String>: the first segment is `std`
StdOptionString ==
    TPath(<<Seg("std", NoArgs), Seg("option", NoArgs),
            Seg("Option", Angle(<<GType(StringTy)>>))>>)

\* Option with no generic arguments at all
OptionBare == Simple("Option")

\* Vec<>: angle brackets with nothing inside
VecEmpty == Generic("Vec", <<>>)

\* Vec<'a>: the first generic argument is not a type
VecLifetime == Generic("Vec", <<GLifetime>>)

\* Vec(String): parenthesized arguments
VecParen == TPath(<<Seg("Vec", Paren)>>)

\* Vec<String, Global>: two generic type arguments
VecTwo == Generic("Vec", <<GType(StringTy), GType(Simple("Global"))>>)

\* Option<String, u32>: two generic type arguments
OptionTwo == Generic("Option", <<GType(StringTy), GType(Simple("u32"))>>)

\* the types the running builder is exercised with
CoreTypes == {StringTy, OptionString, VecString}

\* the further types generation is exercised with
EdgeTypes ==
    {OptionVecString, StdOptionString, OptionBare, VecEmpty, VecLifetime,
     VecParen, VecTwo, OptionTwo, TReference}

----------------------------------------------------------------------------
(* Option<String> as it appears in Opts.                                   *)

ONone == [some |-> FALSE, v |-> ""]

OSome(s) == [some |-> TRUE, v |-> s]

----------------------------------------------------------------------------
(* The input declarations.                                                 *)

\* the name of the field in each position, and an accumulator name for it
FieldNames == <<"executable", "args", "env", "current_dir">>

EachNames == <<"exe", "arg", "env_item", "dir">>

DefaultDefault == "Default::default()"

\* the text vec![<RUST_LOG=info>.into()], its string literal written in <>
DefaultRustLog == "vec![<RUST_LOG=info>.into()]"

\* a default whose text does not lex as a token stream
DefaultUnbalanced == "vec!["

Directive(key, value) == [key |-> key, value |-> value]

\* #[builder(...)] of one field: at most one each, one default, one other key
AttrSets(eachs, defaults, others) ==
    {e \cup d \cup o :
        e \in {{}} \cup {{Directive("each", x)} : x \in eachs},
        d \in {{}} \cup {{Directive("default", x)} : x \in defaults},
        o \in {{}} \cup {{Directive(x, "x")} : x \in others}}

Field(ident, ty, attrs) == [ident |-> ident, ty |-> ty, attrs |-> attrs]

\* the fields the generation-only specification puts in position i
GenFieldDecls(i) ==
    {Field(FieldNames[i], ty, a) :
        ty \in CoreTypes,
        a \in AttrSets({EachNames[i], FieldNames[i]},
                       {DefaultDefault, DefaultRustLog, DefaultUnbalanced},
                       {"foo"})}
    \cup
    {Field(FieldNames[i], ty, a) :
        ty \in EdgeTypes, a \in AttrSets({EachNames[i]}, {}, {})}

\* the fields the running specification puts in position i: the default
\* expressions are those the host compiler accepts for the field's type
RunFieldDecls(i) ==
    {Field(FieldNames[i], ty, a) :
        ty \in {StringTy, OptionString},
        a \in AttrSets({}, {DefaultDefault}, {})}
    \cup
    {Field(FieldNames[i], VecString, a) :
        a \in AttrSets({EachNames[i]}, {DefaultDefault, DefaultRustLog}, {})}

Decl(data, fields) == [ident |-> "Command", data |-> data, fields |-> fields]

\* declarations that are not a struct with named fields
UnsupportedData == {"StructUnnamed", "StructUnit", "Enum", "Union"}

GenFieldSeqs(n) ==
    IF n = 0 THEN {<<>>}
    ELSE LET F[k \in 0..n] ==
                 IF k = 0 THEN {<<>>}
                 ELSE {Append(s, f) : s \in F[k - 1], f \in GenFieldDecls(k)}
         IN UNION {F[k] : k \in 0..n}

RunFieldSeqs(n) ==
    IF n = 0 THEN {<<>>}
    ELSE LET F[k \in 0..n] ==
                 IF k = 0 THEN {<<>>}
                 ELSE {Append(s, f) : s \in F[k - 1], f \in RunFieldDecls(k)}
         IN UNION {F[k] : k \in 0..n}

GenDecls ==
    {Decl("StructNamed", fs) : fs \in GenFieldSeqs(GenMaxFields)}
    \cup {Decl(d, <<>>) : d \in UnsupportedData}

RunDecls ==
    {Decl("StructNamed", fs) : fs \in RunFieldSeqs(MaxFields)}
    \cup {Decl(d, <<>>) : d \in UnsupportedData}

----------------------------------------------------------------------------
(* BuilderContext::new.                                                    *)

\* Opts::default(): #[derive(Default)] on two Options
Opts_default == [each |-> ONone, default |-> ONone]

Lookup(attrs, key) ==
    IF \E d \in attrs : d.key = key
    THEN OSome((CHOOSE d \in attrs : d.key = key).value)
    ELSE ONone

\* Opts::from_field, derived by darling with #[darling(default,
\* attributes(builder))]: a key that is no field of Opts is an error (the
\* derive does not allow unknown fields); a missing key keeps its default.
from_field(f) ==
    IF \E d \in f.attrs : d.key \notin {"each", "default"}
    THEN [ok |-> FALSE, opts |-> Opts_default]
    ELSE [ok |-> TRUE,
          opts |-> [each |-> Lookup(f.attrs, "each"),
                    default |-> Lookup(f.attrs, "default")]]

unwrap_or_default(r) == IF r.ok THEN r.opts ELSE Opts_default

Fd(f) ==
    [opts |-> unwrap_or_default(from_field(f)), name |-> f.ident, ty |-> f.ty]

NoCtx == [name |-> "", fields |-> <<>>]

UnsupportedMsg == "Unsupported data type"

New ==
    /\ pc = "input"
    /\ IF input.data = "StructNamed"
       THEN /\ ctx' = [name |-> input.ident,
                       fields |-> [i \in 1..Len(input.fields) |->
                                       Fd(input.fields[i])]]
            /\ pc' = "ctx"
            /\ UNCHANGED panic_msg
       ELSE /\ pc' = "panicked"
            /\ panic_msg' = UnsupportedMsg
            /\ UNCHANGED ctx
    /\ UNCHANGED <<input, output, builder, hist, result>>

----------------------------------------------------------------------------
(* The type inspector.                                                     *)

OtherGenericArgumentMsg == "Not sure what to do with other GenericArgument"

OtherPathArgumentsMsg == "Not sure what to do with other PathArguments"

Inner(panic, is, ty) == [panic |-> panic, is |-> is, ty |-> ty]

get_type_inner(ty, name) ==
    IF ty.kind = "Path" /\ Len(ty.segs) > 0 /\ ty.segs[1].ident = name
    THEN LET v == ty.segs[1] IN
         IF v.arguments.kind = "AngleBracketed"
         THEN IF Len(v.arguments.args) > 0
                 /\ v.arguments.args[1].kind = "Type"
              THEN Inner("", TRUE, v.arguments.args[1].ty)
              ELSE Inner(OtherGenericArgumentMsg, FALSE, NoTy)
         ELSE Inner(OtherPathArgumentsMsg, FALSE, NoTy)
    ELSE Inner("", FALSE, ty)

get_option_inner(ty) == get_type_inner(ty, "Option")

get_vec_inner(ty) == get_type_inner(ty, "Vec")

----------------------------------------------------------------------------
(* The code emitter.  Each gen_* item is the tokens emitted for one field, *)
(* or the panic raised while emitting them.                                *)

\* std::option::Option<#ty>
OptionOf(ty) ==
    TPath(<<Seg("std", NoArgs), Seg("option", NoArgs),
            Seg("Option", Angle(<<GType(ty)>>))>>)

Item(panic, tok) == [panic |-> panic, tok |-> tok]

FirstOf(a, b) == IF a # "" THEN a ELSE b

gen_optionized_field_declared(f) ==
    LET o == get_option_inner(f.ty) IN
    Item(o.panic, [name |-> f.name, ty |-> OptionOf(f.ty)])

gen_optionized_field(f) ==
    LET o == get_option_inner(f.ty) IN
    Item(o.panic, [name |-> f.name, ty |-> OptionOf(o.ty)])

Method(kind, name, arg, field) ==
    [kind |-> kind, name |-> name, arg |-> arg, field |-> field]

gen_method_inner(f) ==
    LET o == get_option_inner(f.ty)
        v == get_vec_inner(f.ty)
    IN  IF o.panic # "" \/ v.panic # ""
        THEN Item(FirstOf(o.panic, v.panic), Method("set", f.name, NoTy, f.name))
        ELSE IF v.is /\ f.opts.each.some
        THEN Item("", Method("each", f.opts.each.v, v.ty, f.name))
        ELSE Item("", Method("set", f.name, IF v.is THEN v.ty ELSE o.ty, f.name))

gen_method_each_any(f) ==
    LET o == get_option_inner(f.ty)
        v == get_vec_inner(f.ty)
    IN  IF o.panic # "" \/ v.panic # ""
        THEN Item(FirstOf(o.panic, v.panic), Method("set", f.name, NoTy, f.name))
        ELSE IF f.opts.each.some
        THEN Item("", Method("each", f.opts.each.v, v.ty, f.name))
        ELSE Item("", Method("set", f.name, o.ty, f.name))

gen_method(f) ==
    LET o == get_option_inner(f.ty)
        v == get_vec_inner(f.ty)
    IN  IF o.panic # "" \/ v.panic # ""
        THEN Item(FirstOf(o.panic, v.panic), Method("set", f.name, NoTy, f.name))
        ELSE IF v.is /\ f.opts.each.some
        THEN Item("", Method("each", f.opts.each.v, v.ty, f.name))
        ELSE Item("", Method("set", f.name, o.ty, f.name))

\* str::parse::<TokenStream>(): fails on text that does not lex
ParseFails(text) == text = DefaultUnbalanced

ParseErrorMsg == "called Result::unwrap() on an Err value: LexError"

NeedsToBeSet(name) == <<name, " needs to be set!">>

Assign(kind, name, expr) ==
    [kind |-> kind, name |-> name, expr |-> expr, msg |-> NeedsToBeSet(name)]

gen_assign_no_required(f) ==
    LET o == get_option_inner(f.ty) IN
    IF o.panic # "" THEN Item(o.panic, Assign("take", f.name, ""))
    ELSE IF o.is THEN Item("", Assign("take", f.name, ""))
    ELSE IF f.opts.default.some
    THEN IF ParseFails(f.opts.default.v)
         THEN Item(ParseErrorMsg, Assign("unwrap_or_else", f.name, ""))
         ELSE Item("", Assign("unwrap_or_else", f.name, f.opts.default.v))
    ELSE Item("", Assign("unwrap_or_else", f.name, DefaultDefault))

gen_assign_default_first(f) ==
    LET o == get_option_inner(f.ty) IN
    IF o.panic # "" THEN Item(o.panic, Assign("take", f.name, ""))
    ELSE IF f.opts.default.some
    THEN IF ParseFails(f.opts.default.v)
         THEN Item(ParseErrorMsg, Assign("unwrap_or_else", f.name, ""))
         ELSE Item("", Assign("unwrap_or_else", f.name, f.opts.default.v))
    ELSE IF o.is THEN Item("", Assign("take", f.name, ""))
    ELSE Item("", Assign("ok_or", f.name, ""))

gen_assign(f) ==
    LET o == get_option_inner(f.ty) IN
    IF o.panic # "" THEN Item(o.panic, Assign("take", f.name, ""))
    ELSE IF o.is THEN Item("", Assign("take", f.name, ""))
    ELSE IF f.opts.default.some
    THEN IF ParseFails(f.opts.default.v)
         THEN Item(ParseErrorMsg, Assign("unwrap_or_else", f.name, ""))
         ELSE Item("", Assign("unwrap_or_else", f.name, f.opts.default.v))
    ELSE Item("", Assign("ok_or", f.name, ""))

gen_optionized_fields(c) ==
    [i \in 1..Len(c.fields) |-> gen_optionized_field(c.fields[i])]

gen_methods(c) == [i \in 1..Len(c.fields) |-> gen_method(c.fields[i])]

gen_assigns(c) == [i \in 1..Len(c.fields) |-> gen_assign(c.fields[i])]

NoOutput ==
    [name |-> "", builder_name |-> <<>>, fields |-> <<>>, methods |-> <<>>,
     assigns |-> <<>>]

Toks(items) == [i \in 1..Len(items) |-> items[i].tok]

\* quote! drains the three lazy iterators in the order they are spliced:
\* storage fields, methods, assignments; the first panic aborts the macro
generate(c) ==
    LET optionized_fields == gen_optionized_fields(c)
        methods == gen_methods(c)
        assigns == gen_assigns(c)
        all == optionized_fields \o methods \o assigns
        bad == {i \in 1..Len(all) : all[i].panic # ""}
    IN  IF bad # {}
        THEN Item(all[CHOOSE i \in bad : \A j \in bad : i <= j].panic, NoOutput)
        ELSE Item("", [name |-> c.name,
                       builder_name |-> <<c.name, "Builder">>,
                       fields |-> Toks(optionized_fields),
                       methods |-> Toks(methods),
                       assigns |-> Toks(assigns)])

Generate ==
    /\ pc = "ctx"
    /\ LET g == generate(ctx) IN
       IF g.panic # ""
       THEN /\ pc' = "panicked"
            /\ panic_msg' = g.panic
            /\ UNCHANGED output
       ELSE /\ pc' = "generated"
            /\ output' = g.tok
            /\ UNCHANGED panic_msg
    /\ UNCHANGED <<input, ctx, builder, hist, result>>

----------------------------------------------------------------------------
(* Run time: the values the generated builder handles.  A value carries    *)
(* its type t, a string payload s or a list payload l; Some(v) keeps v's   *)
(* type in `in`.                                                           *)

Value(t, s, l, in) == [t |-> t, s |-> s, l |-> l, in |-> in]

\* a string slice, as passed by callers such as .executable("find")
StrRef(s) == Value("&str", s, <<>>, "")

Str(s) == Value("String", s, <<>>, "")

VecOf(l) == Value("Vec", "", l, "")

NoneV == Value("None", "", <<>>, "")

SomeV(v) == Value("Some", v.s, v.l, v.t)

unwrap(o) == Value(o.in, o.s, o.l, "")

\* v.into(): From<&str> for String copies the text, From<T> for T is T
into(v) == IF v.t = "&str" THEN Str(v.s) ELSE v

ArgStrs == {"-c", "X=1"}

\* the arguments callers pass for a parameter of type impl Into<ty>
ArgsFor(ty) ==
    IF ty = VecString
    THEN {VecOf(<<>>), VecOf(<<"X=1", "-c">>)}
    ELSE {StrRef("-c"), Str("X=1")}

\* the value of a default expression spliced into finish()
EvalDefault(expr, ty) ==
    IF expr = DefaultRustLog THEN VecOf(<<"RUST_LOG=info">>)
    ELSE IF ty = VecString THEN VecOf(<<>>)
    ELSE Str("")

\* Option::unwrap_or_default on the accumulator's Option<Vec<_>>
unwrap_or_default_vec(o) == IF o.t = "Some" THEN unwrap(o) ELSE VecOf(<<>>)

\* the body of the whole-value setter
set_body(slot, v) == SomeV(into(v))

each_body_overwrite(slot, v) == SomeV(VecOf(<<into(v).s>>))

\* the body of the accumulator: take, unwrap_or_default, push, store
each_body(slot, v) ==
    LET data == unwrap_or_default_vec(slot) IN
    SomeV(VecOf(Append(data.l, into(v).s)))

unwrap_or_else_always(o, d) == d

\* Option::unwrap_or_else, the closure being the default expression
unwrap_or_else(o, d) == IF o.t = "Some" THEN unwrap(o) ELSE d

NoResult == [done |-> FALSE, ok |-> FALSE, err |-> <<>>, rec |-> <<>>]

Ok(rec) == [done |-> TRUE, ok |-> TRUE, err |-> <<>>, rec |-> rec]

Err(msg) == [done |-> TRUE, ok |-> FALSE, err |-> msg, rec |-> <<>>]

\* the type T of a storage field std::option::Option<T>
StoredTy(field) == field.ty.segs[3].arguments.args[1].ty

RECURSIVE finish_from(_, _, _, _)
\* the struct expression of finish(): the assignments are evaluated in
\* declaration order and the first `?` on an Err returns it
finish_from(out, b, i, acc) ==
    IF i > Len(out.assigns) THEN Ok(acc)
    ELSE LET a == out.assigns[i] IN
         IF a.kind = "take"
         THEN finish_from(out, b, i + 1, Append(acc, b[i]))
         ELSE IF a.kind = "unwrap_or_else"
         THEN finish_from(out, b, i + 1,
                  Append(acc, unwrap_or_else(b[i],
                                  EvalDefault(a.expr, StoredTy(out.fields[i])))))
         ELSE IF b[i].t = "None" THEN Err(a.msg)
         ELSE finish_from(out, b, i + 1, Append(acc, unwrap(b[i])))

finish(out, b) == finish_from(out, b, 1, <<>>)

RECURSIVE SumLen(_, _)
SumLen(h, i) == IF i > Len(h) THEN 0 ELSE Len(h[i]) + SumLen(h, i + 1)

\* Command::builder(): Default::default() of the derived builder
BuilderFactory ==
    /\ pc = "generated"
    /\ pc' = "building"
    /\ builder' = [i \in 1..Len(output.fields) |-> NoneV]
    /\ hist' = [i \in 1..Len(output.fields) |-> <<>>]
    /\ UNCHANGED <<input, ctx, panic_msg, output, result>>

\* one call of the method generated for field i
Call ==
    /\ pc = "building"
    /\ SumLen(hist, 1) < MaxCalls
    /\ \E i \in 1..Len(output.methods) :
          \E v \in ArgsFor(output.methods[i].arg) :
             /\ builder' = [builder EXCEPT ![i] =
                               IF output.methods[i].kind = "each"
                               THEN each_body(@, v)
                               ELSE set_body(@, v)]
             /\ hist' = [hist EXCEPT ![i] = Append(@, v)]
    /\ UNCHANGED <<input, pc, ctx, panic_msg, output, result>>

Finish ==
    /\ pc = "building"
    /\ result' = finish(output, builder)
    /\ pc' = "finished"
    /\ UNCHANGED <<input, ctx, panic_msg, output, builder, hist>>

----------------------------------------------------------------------------
InitCommon ==
    /\ pc = "input"
    /\ ctx = NoCtx
    /\ panic_msg = ""
    /\ output = NoOutput
    /\ builder = <<>>
    /\ hist = <<>>
    /\ result = NoResult

InitGen == input \in GenDecls /\ InitCommon

NextGen == New \/ Generate

SpecGen == InitGen /\ [][NextGen]_vars

Init == input \in RunDecls /\ InitCommon

Next == New \/ Generate \/ BuilderFactory \/ Call \/ Finish

Spec == Init /\ [][Next]_vars

----------------------------------------------------------------------------
(* What the claims speak of, read off the declaration and the resolved     *)
(* options rather than off the generator's own classification.             *)

FirstName(ty) ==
    IF ty.kind = "Path" /\ Len(ty.segs) > 0 THEN ty.segs[1].ident ELSE ""

OptionalShaped(ty) == FirstName(ty) = "Option"

SequenceShaped(ty) == FirstName(ty) = "Vec"

\* the generic arguments written after the first segment
TypeArgs(ty) == ty.segs[1].arguments.args

FirstArg(ty) == TypeArgs(ty)[1].ty

Fields == 1..Len(ctx.fields)

HasDefault(i) == ctx.fields[i].opts.default.some

HasEach(i) == ctx.fields[i].opts.each.some

\* a field finish() insists on: not Optional-shaped and without a default
Required(i) == ~OptionalShaped(ctx.fields[i].ty) /\ ~HasDefault(i)

NeverSet(i) == hist[i] = <<>>

Last(h) == h[Len(h)]

\* the text handed over in a call, whatever the argument's own type
Payloads(h) == [k \in 1..Len(h) |-> h[k].s]

Accumulates(i) == SequenceShaped(ctx.fields[i].ty) /\ HasEach(i)

\* what a field holds once its method has been called with the arguments h
Stored(i, h) ==
    IF Accumulates(i) THEN VecOf(Payloads(h))
    ELSE IF Last(h).t = "Vec" THEN Last(h)
    ELSE Str(Last(h).s)

Finished == pc = "finished"

UnsetRequired == {i \in Fields : Required(i) /\ NeverSet(i)}

Least(S) == CHOOSE i \in S : \A j \in S : i <= j

----------------------------------------------------------------------------
(* C1: finish() fails exactly when some field that is neither              *)
(* Optional-shaped nor given a default was never set; the failure is       *)
(* "<field> needs to be set!" for the first such field in declaration      *)
(* order.                                                                  *)
C1_FinishFailsOnFirstUnsetRequired ==
    Finished =>
        /\ result.ok <=> UnsetRequired = {}
        /\ ~result.ok =>
              result.err = <<input.fields[Least(UnsetRequired)].ident,
                             " needs to be set!">>

\* finish() failed with two required fields unset and named the first
C1_Witness ==
    /\ Finished
    /\ ~result.ok
    /\ Cardinality(UnsetRequired) = 2
    /\ result.err = <<input.fields[1].ident, " needs to be set!">>

(* C2: an Optional-shaped field never makes finish() fail, with or without *)
(* a default directive; it finishes as Some(x) for the last x it was set   *)
(* to and as none when it was never set.                                   *)
C2_OptionalFieldsRoundTrip ==
    Finished =>
        \A i \in Fields :
            OptionalShaped(ctx.fields[i].ty) =>
                /\ ~result.ok =>
                      result.err # <<input.fields[i].ident, " needs to be set!">>
                /\ result.ok =>
                      result.rec[i] =
                          IF NeverSet(i) THEN NoneV
                          ELSE SomeV(Str(Last(hist[i]).s))

\* an unset Optional field with a default finished as none, next to a set one
C2_Witness ==
    /\ Finished
    /\ result.ok
    /\ \E i, j \in Fields :
          /\ OptionalShaped(ctx.fields[i].ty) /\ HasDefault(i)
          /\ NeverSet(i) /\ result.rec[i] = NoneV
          /\ OptionalShaped(ctx.fields[j].ty) /\ ~NeverSet(j)
          /\ result.rec[j].t = "Some"

(* C3: a Sequence-shaped field with an accumulator finishes as exactly the *)
(* elements of its N >= 1 accumulator calls, in call order, duplicates     *)
(* kept, however the calls interleave with calls on other fields.          *)
C3_AccumulatorKeepsCallOrder ==
    Finished =>
        \A i \in Fields :
            (Accumulates(i) /\ ~NeverSet(i)) =>
                /\ result.ok
                      => result.rec[i] = VecOf(Payloads(hist[i]))
                /\ ~result.ok
                      => result.err # <<input.fields[i].ident, " needs to be set!">>

\* two different elements accumulated, a call on another field among them
C3_Witness ==
    /\ Finished
    /\ result.ok
    /\ \E i, j \in Fields :
          /\ i # j
          /\ Accumulates(i)
          /\ Len(hist[i]) = 2
          /\ hist[i][1].s # hist[i][2].s
          /\ result.rec[i].l = <<hist[i][1].s, hist[i][2].s>>
          /\ ~NeverSet(j)

(* C4: a non-Optional field with a default finishes as the value of the    *)
(* default when it was never set, and as the stored value alone when it    *)
(* was set: one accumulator call with "X=1" over the default               *)
(* ["RUST_LOG=info"] finishes as ["X=1"].                                  *)
C4_DefaultOnlyWhenUnset ==
    Finished =>
        \A i \in Fields :
            (~OptionalShaped(ctx.fields[i].ty) /\ HasDefault(i)) =>
                /\ ~result.ok
                      => result.err # <<input.fields[i].ident, " needs to be set!">>
                /\ result.ok =>
                      result.rec[i] =
                          IF NeverSet(i)
                          THEN EvalDefault(ctx.fields[i].opts.default.v,
                                           ctx.fields[i].ty)
                          ELSE Stored(i, hist[i])

\* env with the RUST_LOG default and one call env_item("X=1"), beside a
\* field left to its default
C4_Witness ==
    /\ Finished
    /\ result.ok
    /\ \E i, j \in Fields :
          /\ Accumulates(i)
          /\ ctx.fields[i].opts.default = OSome(DefaultRustLog)
          /\ Len(hist[i]) = 1 /\ hist[i][1].s = "X=1"
          /\ result.rec[i] = VecOf(<<"X=1">>)
          /\ HasDefault(j) /\ NeverSet(j)
          /\ ~OptionalShaped(ctx.fields[j].ty)
          /\ result.rec[j] = VecOf(<<"RUST_LOG=info">>)

----------------------------------------------------------------------------
Generated == pc = "generated"

(* C5, as stated: every storage field of the builder has the field's name  *)
(* and the type Optional<declaredType>, whatever the field's shape.        *)
C5_StorageWrapsDeclaredType ==
    Generated =>
        /\ Len(output.fields) = Len(input.fields)
        /\ \A i \in 1..Len(input.fields) :
              /\ output.fields[i].name = input.fields[i].ident
              /\ output.fields[i].ty = OptionOf(input.fields[i].ty)

(* C5, amended: every storage field has the field's name; its type is      *)
(* Optional<declaredType> for a Plain or Sequence field and                *)
(* Optional<innerType> for an Optional field, which is not wrapped twice.  *)
C5_StorageWrapsOnce ==
    Generated =>
        /\ Len(output.fields) = Len(input.fields)
        /\ \A i \in 1..Len(input.fields) :
              /\ output.fields[i].name = input.fields[i].ident
              /\ output.fields[i].ty =
                    IF OptionalShaped(input.fields[i].ty)
                    THEN OptionOf(FirstArg(input.fields[i].ty))
                    ELSE OptionOf(input.fields[i].ty)

\* a builder was generated for a record with an Optional-shaped field
C5_Witness ==
    /\ Generated
    /\ \E i \in 1..Len(input.fields) :
          /\ OptionalShaped(input.fields[i].ty)
          /\ output.fields[i].ty = OptionOf(FirstArg(input.fields[i].ty))

(* C6, as stated: a whole-value setter takes an argument convertible to    *)
(* innerType when the field is Optional or Sequence, and to declaredType   *)
(* when it is Plain.                                                       *)
C6_SetterTakesUnwrappedType ==
    Generated =>
        \A i \in 1..Len(input.fields) :
            output.methods[i].kind = "set" =>
                output.methods[i].arg =
                    IF OptionalShaped(input.fields[i].ty)
                       \/ SequenceShaped(input.fields[i].ty)
                    THEN FirstArg(input.fields[i].ty)
                    ELSE input.fields[i].ty

(* C6, amended: a whole-value setter takes an argument convertible to      *)
(* innerType when the field is Optional, and to declaredType when it is    *)
(* Plain or Sequence (the setter of a sequence field takes the whole       *)
(* sequence).                                                              *)
C6_SetterUnwrapsOptionalOnly ==
    Generated =>
        \A i \in 1..Len(input.fields) :
            output.methods[i].kind = "set" =>
                output.methods[i].arg =
                    IF OptionalShaped(input.fields[i].ty)
                    THEN FirstArg(input.fields[i].ty)
                    ELSE input.fields[i].ty

\* a whole-value setter was generated for a Sequence-shaped field
C6_Witness ==
    /\ Generated
    /\ \E i \in 1..Len(input.fields) :
          /\ SequenceShaped(input.fields[i].ty)
          /\ output.methods[i].kind = "set"
          /\ output.methods[i].arg = input.fields[i].ty

\* generate has run, whether it emitted the builder or panicked
AfterGenerate == Generated \/ (pc = "panicked" /\ ctx # NoCtx)

WrapperNamed(ty) == OptionalShaped(ty) \/ SequenceShaped(ty)

\* the wrapper carries exactly one generic argument and it is a type
ExactlyOneTypeArg(ty) ==
    /\ ty.segs[1].arguments.kind = "AngleBracketed"
    /\ Len(TypeArgs(ty)) = 1
    /\ TypeArgs(ty)[1].kind = "Type"

(* C7: a type named Option or Vec is classified, with its argument as      *)
(* innerType, only when it carries exactly one generic type argument; with *)
(* none or with more than one generation fails and nothing is emitted; any *)
(* other type is Plain with innerType the type as written.                 *)
C7_WrapperNeedsExactlyOneArgument ==
    AfterGenerate =>
        \A i \in 1..Len(input.fields) :
            LET ty == input.fields[i].ty IN
            /\ (WrapperNamed(ty) /\ ~ExactlyOneTypeArg(ty))
                  => (pc = "panicked" /\ output = NoOutput)
            /\ (WrapperNamed(ty) /\ ExactlyOneTypeArg(ty))
                  => get_type_inner(ty, FirstName(ty)) =
                         Inner("", TRUE, FirstArg(ty))
            /\ ~WrapperNamed(ty)
                  => /\ get_option_inner(ty) = Inner("", FALSE, ty)
                     /\ get_vec_inner(ty) = Inner("", FALSE, ty)

\* new has run on a record with named fields
AfterNew == pc # "input" /\ input.data = "StructNamed"

(* C8: an unknown directive key is ignored: generation does not fail on    *)
(* it and every field resolves to the values of its own `each` and         *)
(* `default` keys, to none where the key is absent.                        *)
C8_UnknownKeysIgnored ==
    AfterNew =>
        /\ ctx # NoCtx
        /\ Len(ctx.fields) = Len(input.fields)
        /\ \A i \in 1..Len(input.fields) :
              ctx.fields[i].opts =
                  [each |-> Lookup(input.fields[i].attrs, "each"),
                   default |-> Lookup(input.fields[i].attrs, "default")]

(* C9: exactly one method is emitted per field: the accumulator named      *)
(* eachName, and no setter, when the field is Sequence-shaped and has an   *)
(* eachName (also when eachName is the field's own name); the whole-value  *)
(* setter named after the field, and no accumulator, in every other case.  *)
C9_OneMethodPerField ==
    Generated =>
        /\ Len(output.methods) = Len(input.fields)
        /\ \A i \in 1..Len(input.fields) :
              LET m == output.methods[i] IN
              /\ m.field = input.fields[i].ident
              /\ IF SequenceShaped(input.fields[i].ty) /\ HasEach(i)
                 THEN m.kind = "each" /\ m.name = ctx.fields[i].opts.each.v
                 ELSE m.kind = "set" /\ m.name = input.fields[i].ident

\* an accumulator carrying the field's own name was emitted
C9_Witness ==
    /\ Generated
    /\ \E i \in 1..Len(input.fields) :
          /\ SequenceShaped(input.fields[i].ty)
          /\ ctx.fields[i].opts.each = OSome(input.fields[i].ident)
          /\ output.methods[i].kind = "each"
          /\ output.methods[i].name = input.fields[i].ident

\* the word that names each unsupported shape
ShapeWord(data) ==
    IF data = "StructUnnamed" THEN "tuple"
    ELSE IF data = "StructUnit" THEN "unit"
    ELSE IF data = "Enum" THEN "enum"
    ELSE "union"

\* the words of the panic messages of the generator
Words(msg) ==
    IF msg = UnsupportedMsg THEN {"Unsupported", "data", "type"}
    ELSE IF msg = OtherGenericArgumentMsg
    THEN {"Not", "sure", "what", "to", "do", "with", "other", "GenericArgument"}
    ELSE IF msg = OtherPathArgumentsMsg
    THEN {"Not", "sure", "what", "to", "do", "with", "other", "PathArguments"}
    ELSE {}

(* C10: on a declaration that is not a record with named fields,           *)
(* generation fails before any field is processed, emits nothing, and the  *)
(* failure names the unsupported shape.                                    *)
C10_UnsupportedShapeIsNamed ==
    (pc # "input" /\ input.data \in UnsupportedData) =>
        /\ pc = "panicked"
        /\ ctx = NoCtx
        /\ output = NoOutput
        /\ ShapeWord(input.data) \in Words(panic_msg)

====
